---------------------------- MODULE Spec2Model ----------------------------
(***************************************************************************)
(* A model of the dice roller: src/src/rcmd.rs (RollCmd, its FromStr       *)
(* parser, RollCmd::result, RollResult and its Display) and src/src/main.rs*)
(* (the entry point).                                                      *)
(*                                                                         *)
(* Text is modelled as a sequence of one-character strings, so that        *)
(* splitting, integer parsing and decimal formatting are computed the way  *)
(* the code computes them.  u32 is modelled with U32Bits bits: the width   *)
(* is scaled down, and every place where the code can overflow (integer    *)
(* parsing, the sum of total()) is kept, with both outcomes a build can    *)
(* produce for an overflowing addition (panic, wrap).                      *)
(***************************************************************************)
EXTENDS Integers, Naturals, Sequences, FiniteSets

VARIABLES
    token,          \* SpecParse/Spec: the text handed to str::parse::<RollCmd>()
    parsed,         \* the Result<RollCmd, String> from_str returned (NotYet before)
    f,              \* Spec: the caller-owned closure handed to RollCmd::result
    runs,           \* Spec: how many times RollCmd::result was called on the command
    last,           \* Spec: the outcome of the latest RollCmd::result call
    calls,          \* Spec: the calls of f made by the latest RollCmd::result call
    stored,         \* SpecResult: the Vec<u32> inside a RollResult
    totalOut,       \* SpecResult: what RollResult::total() produced
    shown,          \* SpecResult: what RollResult::to_string() produced
    overflowChecks, \* the build: TRUE = overflow-checks on (debug), FALSE = release
    args,           \* SpecMain: std::env::args()
    pc,             \* SpecMain: where main() is
    rolls,          \* SpecMain: the Vec<RollResult> collected at main.rs:19-22
    printed,        \* SpecMain: how many rolls the loop at main.rs:24 has consumed
    output          \* SpecMain: the lines written to stdout

vars == <<token, parsed, f, runs, last, calls, stored, totalOut, shown,
          overflowChecks, args, pc, rolls, printed, output>>

parseVars  == <<token, parsed>>
execVars   == <<f, runs, last, calls>>
resultVars == <<stored, totalOut, shown>>
mainVars   == <<args, pc, rolls, printed, output>>

---------------------------------------------------------------------------
(* Bounds of the model *)

\* the modelled width of u32 in bits (the code's is 32)
U32Bits == 4
\* the longest token SpecParse draws
MaxLen == 5
\* the longest token Spec (parse, then execute) draws
MaxExecLen == 3
\* Spec executes commands of at most this many dice
MaxDice == 2
\* Spec calls RollCmd::result at most this many times on one command
MaxRuns == 2
\* the longest Vec<u32> SpecResult wraps in a RollResult
MaxVals == 3
\* the most arguments SpecMain passes to main
MaxArgs == 2

U32Max == 2^U32Bits - 1
U32 == 0..U32Max

---------------------------------------------------------------------------
(* Text *)

DigitChars == <<"0", "1", "2", "3", "4", "5", "6", "7", "8", "9">>

IsDigit(c) == \E i \in 1..10 : DigitChars[i] = c

\* char::to_digit(10)
DigitVal(c) == (CHOOSE i \in 1..10 : DigitChars[i] = c) - 1

\* u32::to_string: the decimal digits, most significant first, no padding
RECURSIVE to_string(_)
to_string(n) ==
    IF n < 10 THEN <<DigitChars[n + 1]>>
    ELSE to_string(n \div 10) \o <<DigitChars[(n % 10) + 1]>>

\* [String]::join(sep)
RECURSIVE join(_, _)
join(strs, sep) ==
    IF strs = <<>> THEN <<>>
    ELSE IF Len(strs) = 1 THEN strs[1]
    ELSE strs[1] \o sep \o join(Tail(strs), sep)

\* str::split('d'): the pieces between the delimiters, empty pieces kept;
\* a text with no delimiter is one piece
RECURSIVE SplitFrom(_, _, _, _)
SplitFrom(s, i, cur, acc) ==
    IF i > Len(s) THEN Append(acc, cur)
    ELSE IF s[i] = "d" THEN SplitFrom(s, i + 1, <<>>, Append(acc, cur))
    ELSE SplitFrom(s, i + 1, Append(cur, s[i]), acc)

split(s) == SplitFrom(s, 1, <<>>, <<>>)

None == [some |-> FALSE, val |-> 0]
Some(n) == [some |-> TRUE, val |-> n]

\* the digit loop of u32::from_str_radix(_, 10): checked_mul, then checked_add
RECURSIVE ParseDigits(_, _, _)
ParseDigits(p, i, acc) ==
    IF i > Len(p) THEN Some(acc)
    ELSE IF ~IsDigit(p[i]) THEN None
    ELSE IF acc * 10 > U32Max THEN None
    ELSE IF acc * 10 + DigitVal(p[i]) > U32Max THEN None
    ELSE ParseDigits(p, i + 1, acc * 10 + DigitVal(p[i]))

\* str::parse::<u32>().ok(): empty text fails, one leading '+' is accepted,
\* a lone sign fails, anything but decimal digits fails, overflow fails
ParseU32(p) ==
    IF p = <<>> THEN None
    ELSE IF p[1] = "+" THEN (IF Len(p) = 1 THEN None ELSE ParseDigits(p, 2, 0))
    ELSE ParseDigits(p, 1, 0)

---------------------------------------------------------------------------
(* RollCmd and its parser *)

RollCmd(c, s) == [count |-> c, sides |-> s]

NoCmd == RollCmd(0, 0)

Ok(cmd) == [tag |-> "Ok", cmd |-> cmd, err |-> <<>>]
Err(msg) == [tag |-> "Err", cmd |-> NoCmd, err |-> msg]
NotYet == [tag |-> "NotYet", cmd |-> NoCmd, err |-> <<>>]

\* the literal of format!("Invalid RollCmd: {}", s)
InvalidPrefix ==
    <<"I", "n", "v", "a", "l", "i", "d", " ", "R", "o", "l", "l", "C", "m", "d", ":", " ">>

\* .filter_map(|n| n.parse().ok()).collect(): the values of the pieces that parse
RECURSIVE filter_map_parse(_)
filter_map_parse(pieces) ==
    IF pieces = <<>> THEN <<>>
    ELSE LET r == ParseU32(Head(pieces))
         IN  (IF r.some THEN <<r.val>> ELSE <<>>) \o filter_map_parse(Tail(pieces))

\* the two values taken in the wrong order
from_str_swapped(s) ==
    LET ns == filter_map_parse(split(s))
    IN  CASE Len(ns) = 2 -> Ok(RollCmd(ns[2], ns[1]))
          [] Len(ns) = 1 -> Ok(RollCmd(1, ns[1]))
          [] OTHER -> Err(InvalidPrefix \o s)

\* a lone value taken as the count
from_str_countonly(s) ==
    LET ns == filter_map_parse(split(s))
    IN  CASE Len(ns) = 2 -> Ok(RollCmd(ns[1], ns[2]))
          [] Len(ns) = 1 -> Ok(RollCmd(ns[1], 1))
          [] OTHER -> Err(InvalidPrefix \o s)

\* extra values ignored instead of refused
from_str_lenient(s) ==
    LET ns == filter_map_parse(split(s))
    IN  CASE Len(ns) >= 2 -> Ok(RollCmd(ns[1], ns[2]))
          [] Len(ns) = 1 -> Ok(RollCmd(1, ns[1]))
          [] OTHER -> Err(InvalidPrefix \o s)

\* a zero taken as "not given"
from_str_nozero(s) ==
    LET ns == SelectSeq(filter_map_parse(split(s)), LAMBDA n : n # 0)
    IN  CASE Len(ns) = 2 -> Ok(RollCmd(ns[1], ns[2]))
          [] Len(ns) = 1 -> Ok(RollCmd(1, ns[1]))
          [] OTHER -> Err(InvalidPrefix \o s)

\* <RollCmd as FromStr>::from_str
from_str(s) ==
    LET ns == filter_map_parse(split(s))
    IN  CASE Len(ns) = 2 -> Ok(RollCmd(ns[1], ns[2]))
          [] Len(ns) = 1 -> Ok(RollCmd(1, ns[1]))
          [] OTHER -> Err(InvalidPrefix \o s)

---------------------------------------------------------------------------
(* The injected function F: FnMut(u32) -> u32 and RollCmd::result *)

\* The closures a caller hands to RollCmd::result:
\*   "max"   |max| max                          (the doctest, rcmd.rs:35)
\*   "rng"   |max| rng.gen_range(0, max) + 1    (main.rs:21)
\*   "incr"  a stateful counter: n += 1; n      (state n owned by the caller)
\*   "zero"  |_| 0
Closure(k, n) == [kind |-> k, n |-> n]

ClosureKinds == {"max", "rng", "incr", "zero"}

\* the values rng.gen_range(0, max) can return; with max = 0 it returns none
\* and the one element stands for the call that panics
RawDraws(max) == IF max = 0 THEN {0} ELSE 0..(max - 1)

\* Rng::gen_range(low, high): asserts low < high, then a value of [low, high)
gen_range(low, high, pick) ==
    IF low >= high THEN [panic |-> TRUE, val |-> 0]
    ELSE [panic |-> FALSE, val |-> pick]

CallOf(fc, arg, ret, panic) == [f |-> fc, arg |-> arg, ret |-> ret, panic |-> panic]

\* the counter incremented on a copy: the caller's closure never advances
Call_stateless(fc, arg, pick) ==
    CASE fc.kind = "max"  -> CallOf(fc, arg, arg, FALSE)
      [] fc.kind = "zero" -> CallOf(fc, arg, 0, FALSE)
      [] fc.kind = "incr" -> CallOf(fc, arg, fc.n + 1, FALSE)
      [] fc.kind = "rng"  ->
            LET g == gen_range(0, arg, pick)
            IN  IF g.panic THEN CallOf(fc, arg, 0, TRUE)
                ELSE CallOf(fc, arg, g.val + 1, FALSE)

\* the + 1 of main's closure forgotten
Call_nooffset(fc, arg, pick) ==
    CASE fc.kind = "max"  -> CallOf(fc, arg, arg, FALSE)
      [] fc.kind = "zero" -> CallOf(fc, arg, 0, FALSE)
      [] fc.kind = "incr" -> CallOf(Closure("incr", fc.n + 1), arg, fc.n + 1, FALSE)
      [] fc.kind = "rng"  ->
            LET g == gen_range(0, arg, pick)
            IN  IF g.panic THEN CallOf(fc, arg, 0, TRUE)
                ELSE CallOf(fc, arg, g.val, FALSE)

\* one call f(arg): the closure after the call, the value returned, or a panic
Call(fc, arg, pick) ==
    CASE fc.kind = "max"  -> CallOf(fc, arg, arg, FALSE)
      [] fc.kind = "zero" -> CallOf(fc, arg, 0, FALSE)
      [] fc.kind = "incr" -> CallOf(Closure("incr", fc.n + 1), arg, fc.n + 1, FALSE)
      [] fc.kind = "rng"  ->
            LET g == gen_range(0, arg, pick)
            IN  IF g.panic THEN CallOf(fc, arg, 0, TRUE)
                ELSE CallOf(fc, arg, g.val + 1, FALSE)

\* RollResult(Vec<u32>)
RollResult(vs) == [tag |-> "Ok", values |-> vs]
Panicked == [tag |-> "Panic", values |-> <<>>]
NoResult == [tag |-> "None", values |-> <<>>]

\* (0..self.count).map(|_| f(self.sides)).collect(), from index i on
RECURSIVE MapCollect(_, _, _, _, _, _)
MapCollect(cmd, i, fc, picks, vs, log) ==
    IF i >= cmd.count THEN [res |-> RollResult(vs), f |-> fc, calls |-> log]
    ELSE LET c == Call(fc, cmd.sides, picks[i + 1])
             e == [arg |-> c.arg, ret |-> c.ret, panic |-> c.panic]
         IN  IF c.panic THEN [res |-> Panicked, f |-> c.f, calls |-> Append(log, e)]
             ELSE MapCollect(cmd, i + 1, c.f, picks, Append(vs, c.ret), Append(log, e))

\* one die too many: 0..=count instead of 0..count
result_inclusive(cmd, fc, picks) ==
    MapCollect(RollCmd(cmd.count + 1, cmd.sides), 0, fc,
               [i \in 1..(cmd.count + 1) |-> IF i > cmd.count THEN 0 ELSE picks[i]],
               <<>>, <<>>)

\* RollCmd::result(&self, f)
result(cmd, fc, picks) == MapCollect(cmd, 0, fc, picks, <<>>, <<>>)

\* the draws one execution can consume: one per die for the rng closure
Picks(fc, cmd) ==
    IF fc.kind = "rng" THEN [1..cmd.count -> RawDraws(cmd.sides)]
    ELSE {[i \in 1..cmd.count |-> 0]}

---------------------------------------------------------------------------
(* RollResult *)

\* RollResult::values(): the stored Vec as a slice
values(r) == r.values

\* RollResult::iter(): the stored values, in order
iter(r) == r.values

\* u32 a + b: a panic with overflow checks on, a wrap without
add_u32(a, b, checks) ==
    IF a.panic THEN a
    ELSE IF a.val + b > U32Max
         THEN (IF checks THEN [panic |-> TRUE, val |-> 0]
               ELSE [panic |-> FALSE, val |-> (a.val + b) % (U32Max + 1)])
         ELSE [panic |-> FALSE, val |-> a.val + b]

\* Iterator::fold(init, |a, b| a + b) over the values from index i on
RECURSIVE fold_add(_, _, _, _)
fold_add(vs, i, acc, checks) ==
    IF i > Len(vs) THEN acc
    ELSE fold_add(vs, i + 1, add_u32(acc, vs[i], checks), checks)

\* RollResult::total()
total(r, checks) == fold_add(iter(r), 1, [panic |-> FALSE, val |-> 0], checks)

Str(chars) == [panic |-> FALSE, str |-> chars]
StrPanic == [panic |-> TRUE, str |-> <<>>]

\* the values joined with "," instead of ", "
fmt_nospace(r, checks) ==
    LET as_strings == [i \in 1..Len(iter(r)) |-> to_string(iter(r)[i])]
        t == total(r, checks)
    IN  IF t.panic THEN StrPanic
        ELSE Str(join(as_strings, <<",">>)
                 \o <<" ", "(", "T", "o", "t", "a", "l", ":", " ">>
                 \o to_string(t.val) \o <<")">>)

\* <RollResult as Display>::fmt, as to_string() drives it:
\* write!(f, "{} (Total: {})", as_strings.join(", "), self.total())
fmt(r, checks) ==
    LET as_strings == [i \in 1..Len(iter(r)) |-> to_string(iter(r)[i])]
        t == total(r, checks)
    IN  IF t.panic THEN StrPanic
        ELSE Str(join(as_strings, <<",", " ">>)
                 \o <<" ", "(", "T", "o", "t", "a", "l", ":", " ">>
                 \o to_string(t.val) \o <<")">>)

---------------------------------------------------------------------------
(* The entry point, main.rs *)

\* the closure main hands to result: |max| rng.gen_range(0, max) + 1
RngClosure == Closure("rng", 0)

\* .filter_map(|arg| arg.parse::<RollCmd>().ok()): the commands of the
\* arguments that parse, in argument order
RECURSIVE filter_map_cmds(_)
filter_map_cmds(as) ==
    IF as = <<>> THEN <<>>
    ELSE LET r == from_str(Head(as))
         IN  (IF r.tag = "Ok" THEN <<r.cmd>> ELSE <<>>) \o filter_map_cmds(Tail(as))

\* .map(|cmd| cmd.result(...)).collect(): a panic of one roll unwinds main
\* and drops what was collected
RECURSIVE collect_rolls(_, _, _)
collect_rolls(cmds, ps, acc) ==
    IF cmds = <<>> THEN [panic |-> FALSE, rolls |-> acc]
    ELSE LET r == result(Head(cmds), RngClosure, Head(ps)).res
         IN  IF r.tag = "Panic" THEN [panic |-> TRUE, rolls |-> <<>>]
             ELSE collect_rolls(Tail(cmds), Tail(ps), Append(acc, r))

\* the draws the rolls of a list of commands can consume
RECURSIVE PickSeqs(_)
PickSeqs(cmds) ==
    IF cmds = <<>> THEN {<<>>}
    ELSE {<<p>> \o rest : p \in Picks(RngClosure, Head(cmds)), rest \in PickSeqs(Tail(cmds))}

\* what println!("{}", e.description()) writes when OsRng::new() fails
RngErrorLine == <<"(OsRng error description)">>

---------------------------------------------------------------------------
(* The inputs the specifications draw *)

SeqsUpTo(S, n) == UNION {[1..k -> S] : k \in 0..n}

Alphabet == {"0", "1", "2", "d", "x", "+"}
Tokens == SeqsUpTo(Alphabet, MaxLen)

ExecAlphabet == {"0", "1", "2", "d"}
ExecTokens == SeqsUpTo(ExecAlphabet, MaxExecLen)

\* values a RollResult can store: small ones and the largest of u32
ValSet == {0, 1, 2, 3, U32Max - 1, U32Max}

\* argv[0], then the user's tokens
ProgName == <<"d", "i", "c", "e">>
MainTokens == { <<"2", "d", "2">>, <<"d", "2">>, <<"0">>, <<"x">>, <<"2", "d", "8">> }

NoTotal == [tag |-> "None", panic |-> FALSE, val |-> 0]
NoShown == [tag |-> "None", panic |-> FALSE, str |-> <<>>]

ParseIdle == token = <<>> /\ parsed = NotYet
ExecIdle == f = Closure("zero", 0) /\ runs = 0 /\ last = NoResult /\ calls = <<>>
ResultIdle == stored = <<>> /\ totalOut = NoTotal /\ shown = NoShown
MainIdle == args = <<>> /\ pc = "idle" /\ rolls = <<>> /\ printed = 0 /\ output = <<>>

---------------------------------------------------------------------------
(* SpecParse: a token is parsed *)

InitParse ==
    /\ token \in Tokens
    /\ parsed = NotYet
    /\ overflowChecks = FALSE
    /\ ExecIdle /\ ResultIdle /\ MainIdle

\* token.parse::<RollCmd>()
Parse ==
    /\ parsed = NotYet
    /\ parsed' = from_str(token)
    /\ UNCHANGED <<token, execVars, resultVars, mainVars, overflowChecks>>

NextParse == Parse

SpecParse == InitParse /\ [][NextParse]_vars

---------------------------------------------------------------------------
(* Spec: a token is parsed and the command is executed, repeatedly, with   *)
(* one caller-owned closure                                                *)

Init ==
    /\ token \in ExecTokens
    /\ parsed = NotYet
    /\ f \in {Closure(k, 0) : k \in ClosureKinds}
    /\ runs = 0
    /\ last = NoResult
    /\ calls = <<>>
    /\ overflowChecks = FALSE
    /\ ResultIdle /\ MainIdle

\* cmd.result(&mut f): the counter of the "incr" closure is kept within u32
Execute ==
    /\ parsed.tag = "Ok"
    /\ last.tag # "Panic"
    /\ runs < MaxRuns
    /\ parsed.cmd.count <= MaxDice
    /\ f.kind = "incr" => f.n + parsed.cmd.count <= U32Max
    /\ \E picks \in Picks(f, parsed.cmd) :
          LET r == result(parsed.cmd, f, picks)
          IN  /\ last' = r.res
              /\ f' = r.f
              /\ calls' = r.calls
    /\ runs' = runs + 1
    /\ UNCHANGED <<parseVars, resultVars, mainVars, overflowChecks>>

Next == Parse \/ Execute

Spec == Init /\ [][Next]_vars

---------------------------------------------------------------------------
(* SpecResult: total() and to_string() of a RollResult *)

InitResult ==
    /\ stored \in SeqsUpTo(ValSet, MaxVals)
    /\ totalOut = NoTotal
    /\ shown = NoShown
    /\ overflowChecks \in BOOLEAN
    /\ ParseIdle /\ ExecIdle /\ MainIdle

\* RollResult(stored).total()
Total ==
    /\ totalOut.tag = "None"
    /\ LET t == total(RollResult(stored), overflowChecks)
       IN  totalOut' = [tag |-> "Done", panic |-> t.panic, val |-> t.val]
    /\ UNCHANGED <<stored, shown, parseVars, execVars, mainVars, overflowChecks>>

\* RollResult(stored).to_string()
ToDisplayString ==
    /\ shown.tag = "None"
    /\ LET d == fmt(RollResult(stored), overflowChecks)
       IN  shown' = [tag |-> "Done", panic |-> d.panic, str |-> d.str]
    /\ UNCHANGED <<stored, totalOut, parseVars, execVars, mainVars, overflowChecks>>

NextResult == Total \/ ToDisplayString

SpecResult == InitResult /\ [][NextResult]_vars

---------------------------------------------------------------------------
(* SpecMain: main() *)

InitMain ==
    /\ args \in {<<ProgName>> \o ts : ts \in SeqsUpTo(MainTokens, MaxArgs)}
    /\ pc = "start"
    /\ rolls = <<>>
    /\ printed = 0
    /\ output = <<>>
    /\ overflowChecks \in BOOLEAN
    /\ ParseIdle /\ ExecIdle /\ ResultIdle

\* main.rs:10-16: OsRng::new() gives the generator, or main prints the
\* error's description and returns
AcquireRng ==
    /\ pc = "start"
    /\ \/ pc' = "collect" /\ output' = output
       \/ pc' = "norng" /\ output' = Append(output, RngErrorLine)
    /\ UNCHANGED <<args, rolls, printed, parseVars, execVars, resultVars, overflowChecks>>

\* main.rs:19-22
CollectRolls ==
    /\ pc = "collect"
    /\ LET cmds == filter_map_cmds(args)
       IN  \E ps \in PickSeqs(cmds) :
              LET c == collect_rolls(cmds, ps, <<>>)
              IN  /\ rolls' = c.rolls
                  /\ pc' = IF c.panic THEN "panicked" ELSE "print"
    /\ UNCHANGED <<args, printed, output, parseVars, execVars, resultVars, overflowChecks>>

\* main.rs:24, one iteration: println!("{}", roll)
PrintRoll ==
    /\ pc = "print"
    /\ printed < Len(rolls)
    /\ LET d == fmt(rolls[printed + 1], overflowChecks)
       IN  IF d.panic
           THEN pc' = "panicked" /\ UNCHANGED <<printed, output>>
           ELSE /\ output' = Append(output, d.str)
                /\ printed' = printed + 1
                /\ pc' = pc
    /\ UNCHANGED <<args, rolls, parseVars, execVars, resultVars, overflowChecks>>

\* main.rs:24-25: the loop is over, main returns
Exit ==
    /\ pc = "print"
    /\ printed = Len(rolls)
    /\ pc' = "done"
    /\ UNCHANGED <<args, rolls, printed, output, parseVars, execVars, resultVars, overflowChecks>>

NextMain == AcquireRng \/ CollectRolls \/ PrintRoll \/ Exit

SpecMain == InitMain /\ [][NextMain]_vars

---------------------------------------------------------------------------
(* What the claims are stated with *)

\* a piece made of decimal digits only
IsDecimal(p) == p # <<>> /\ \A i \in 1..Len(p) : IsDigit(p[i])

\* the number a decimal piece denotes, as an unbounded integer
RECURSIVE DecValue(_)
DecValue(p) ==
    IF p = <<>> THEN 0
    ELSE 10 * DecValue(SubSeq(p, 1, Len(p) - 1)) + DigitVal(p[Len(p)])

IsPosDecimal(p) == IsDecimal(p) /\ DecValue(p) >= 1

Left(t, k) == SubSeq(t, 1, k - 1)
Right(t, k) == SubSeq(t, k + 1, Len(t))

\* t is "{c}d{s}" with the delimiter at k and c, s positive integers
WellFormedAt(t, k) == t[k] = "d" /\ IsPosDecimal(Left(t, k)) /\ IsPosDecimal(Right(t, k))

\* the indices of the pieces of t that parse as u32
ParsingPieces(t) == {i \in 1..Len(split(t)) : ParseU32(split(t)[i]).some}

PieceVal(t, i) == ParseU32(split(t)[i]).val

Done == parsed.tag # "NotYet"

cmd == parsed.cmd

Executed == runs >= 1

\* the arithmetic sum
RECURSIVE Sum(_)
Sum(vs) == IF vs = <<>> THEN 0 ELSE vs[1] + Sum(Tail(vs))

\* the values as decimal numbers separated by ", ", built from the right
RECURSIVE CommaList(_)
CommaList(vs) ==
    IF vs = <<>> THEN <<>>
    ELSE IF Len(vs) = 1 THEN to_string(vs[1])
    ELSE CommaList(SubSeq(vs, 1, Len(vs) - 1)) \o <<",", " ">> \o to_string(vs[Len(vs)])

---------------------------------------------------------------------------
(* C1 *)

\* C1, as stated: every token "{c}d{s}" with c and s positive integers parses
\* to the command with count = c and sides = s.
C1_AllPositiveIntegers ==
    Done => \A k \in 1..Len(token) :
        WellFormedAt(token, k) =>
            parsed = Ok(RollCmd(DecValue(Left(token, k)), DecValue(Right(token, k))))

\* C1, amended: every token "{c}d{s}" with c and s positive integers that fit
\* u32 parses to the command with count = c and sides = s.
C1_PositiveU32 ==
    Done => \A k \in 1..Len(token) :
        (/\ WellFormedAt(token, k)
         /\ DecValue(Left(token, k)) <= U32Max
         /\ DecValue(Right(token, k)) <= U32Max)
        => parsed = Ok(RollCmd(DecValue(Left(token, k)), DecValue(Right(token, k))))

C1_Witness ==
    /\ token = <<"2", "d", "1", "2">>
    /\ parsed = Ok(RollCmd(2, 12))

---------------------------------------------------------------------------
(* C2 *)

\* C2: a token with exactly one piece that parses as an unsigned integer n,
\* wherever the other pieces sit, parses to count = 1 and sides = n.
C2_OnePiece ==
    Done =>
        /\ Cardinality(ParsingPieces(token)) = 1 =>
              parsed = Ok(RollCmd(1, PieceVal(token, CHOOSE i \in ParsingPieces(token) : TRUE)))
        /\ token \in {<<"2">>, <<"d", "2">>, <<"2", "d">>} => parsed = Ok(RollCmd(1, 2))

C2_Witness ==
    /\ token = <<"x", "d", "2", "d">>
    /\ parsed = Ok(RollCmd(1, 2))

---------------------------------------------------------------------------
(* C3 *)

\* C3: with zero or three-or-more pieces that parse, parse fails with an
\* error that carries the token unchanged and gives no RollCmd; with one or
\* two such pieces parse never fails.
C3_ErrorCarriesToken ==
    Done =>
        LET n == Cardinality(ParsingPieces(token))
        IN  /\ (n = 0 \/ n >= 3) =>
                  /\ parsed.tag = "Err"
                  /\ parsed.cmd = NoCmd
                  /\ Len(parsed.err) = Len(InvalidPrefix) + Len(token)
                  /\ SubSeq(parsed.err, 1, Len(InvalidPrefix)) = InvalidPrefix
                  /\ SubSeq(parsed.err, Len(InvalidPrefix) + 1, Len(parsed.err)) = token
            /\ n \in {1, 2} => parsed.tag = "Ok" /\ parsed.err = <<>>

C3_Witness ==
    /\ token = <<"1", "d", "2", "d", "0">>
    /\ parsed.tag = "Err"
    /\ Cardinality(ParsingPieces(token)) = 3

---------------------------------------------------------------------------
(* C4 *)

\* C4: execute calls f once per die, each time with the command's sides, and
\* the result holds the returned values in call order: count calls and count
\* values when every call returns, and no further call after one that panics.
C4_CallsAndValues ==
    Executed =>
        /\ \A i \in 1..Len(calls) : calls[i].arg = cmd.sides
        /\ last.tag = "Ok" =>
              /\ Len(calls) = cmd.count
              /\ Len(values(last)) = cmd.count
              /\ \A i \in 1..cmd.count : values(last)[i] = calls[i].ret /\ ~calls[i].panic
        /\ last.tag = "Panic" =>
              /\ Len(calls) \in 1..cmd.count
              /\ \A i \in 1..Len(calls) : calls[i].panic <=> i = Len(calls)
        /\ (token = <<"2", "d", "2">> /\ f.kind = "max") => values(last) = <<2, 2>>

C4_Witness ==
    /\ Executed
    /\ f.kind = "incr"
    /\ cmd = RollCmd(2, 1)
    /\ values(last) = <<1, 2>>
    /\ calls = << [arg |-> 1, ret |-> 1, panic |-> FALSE],
                  [arg |-> 1, ret |-> 2, panic |-> FALSE] >>

---------------------------------------------------------------------------
(* C5 *)

InRange(r, c) == \A i \in 1..Len(values(r)) : values(r)[i] \in 1..c.sides

\* C5, as stated: every RollResult a RollCmd produces has count values, each
\* in [1, sides].
C5_AlwaysInRange ==
    (Executed /\ last.tag = "Ok") => Len(values(last)) = cmd.count /\ InRange(last, cmd)

\* C5, amended: every RollResult a RollCmd produces has count values; each is
\* in [1, sides] when the function is the entry point's
\* |max| rng.gen_range(0, max) + 1.
C5_InRangeWithRng ==
    (Executed /\ last.tag = "Ok") =>
        /\ Len(values(last)) = cmd.count
        /\ f.kind = "rng" => InRange(last, cmd)

C5_Witness ==
    /\ Executed
    /\ f.kind = "rng"
    /\ cmd = RollCmd(2, 2)
    /\ values(last) = <<2, 1>>

---------------------------------------------------------------------------
(* C6 *)

\* C6: total() is the arithmetic sum of the stored values, also when the sum
\* exceeds the range of u32.
C6_ArithmeticSum ==
    totalOut.tag = "Done" => ~totalOut.panic /\ totalOut.val = Sum(stored)

---------------------------------------------------------------------------
(* C7 *)

\* C7: the display string is the values in order as decimal numbers joined
\* by ", ", a space, then "(Total: <sum>)" with <sum> what total() returns;
\* " (Total: 0)" for an empty result.  to_string yields no string exactly
\* when total() yields no sum.
C7_DisplayFormat ==
    shown.tag = "Done" =>
        LET t == total(RollResult(stored), overflowChecks)
        IN  /\ shown.panic <=> t.panic
            /\ ~shown.panic =>
                  /\ shown.str = CommaList(stored)
                                    \o <<" ", "(", "T", "o", "t", "a", "l", ":", " ">>
                                    \o to_string(t.val) \o <<")">>
                  /\ \A i \in 1..Len(stored) : DecValue(to_string(stored[i])) = stored[i]
                  /\ stored = <<2, 3, 3>> =>
                        shown.str = <<"2", ",", " ", "3", ",", " ", "3", " ",
                                      "(", "T", "o", "t", "a", "l", ":", " ", "8", ")">>
                  /\ stored = <<>> =>
                        shown.str = <<" ", "(", "T", "o", "t", "a", "l", ":", " ", "0", ")">>

C7_Witness ==
    /\ stored = <<2, 3, 3>>
    /\ shown.tag = "Done"
    /\ shown.str = <<"2", ",", " ", "3", ",", " ", "3", " ",
                     "(", "T", "o", "t", "a", "l", ":", " ", "8", ")">>

---------------------------------------------------------------------------
(* C8 *)

\* C8: when main has ended with a generator in hand, it has printed one line
\* per token that parses, in token order, and nothing else.
C8_OneLinePerValidToken ==
    pc \in {"done", "panicked"} =>
        /\ Len(output) = Len(filter_map_cmds(args))
        /\ Len(rolls) = Len(output)
        /\ \A i \in 1..Len(output) :
              /\ Len(values(rolls[i])) = filter_map_cmds(args)[i].count
              /\ output[i] = fmt(rolls[i], overflowChecks).str

---------------------------------------------------------------------------
(* C9 *)

\* C9: an execution leaves the command as it was, and with the incrementing
\* function its values start where the function's state stands: a second
\* execution's values follow on from the first's.
C9_NoExecutionMemory ==
    [][ runs' = runs + 1 =>
          /\ parsed' = parsed
          /\ f.kind = "incr" =>
                /\ values(last') = [i \in 1..cmd.count |-> f.n + i]
                /\ (runs >= 1 /\ cmd.count >= 1) =>
                      values(last')[1] = values(last)[cmd.count] + 1 ]_vars

C9_Witness ==
    /\ runs = 2
    /\ f.kind = "incr"
    /\ cmd = RollCmd(2, 2)
    /\ values(last) = <<3, 4>>

---------------------------------------------------------------------------
(* C10 *)

\* C10: a zero count or zero sides parses and is kept; with count = 0 the
\* function is never called and the result is empty; with sides = 0 the
\* function is called count times with 0 and what it returns is stored; the
\* only panic is one of the function's own.
C10_ZeroPassesThrough ==
    /\ Done =>
          /\ token = <<"0", "d", "2">> => parsed = Ok(RollCmd(0, 2))
          /\ token = <<"2", "d", "0">> => parsed = Ok(RollCmd(2, 0))
          /\ token = <<"0">> => parsed = Ok(RollCmd(1, 0))
          /\ \A k \in 1..Len(token) :
                (/\ token[k] = "d"
                 /\ IsDecimal(Left(token, k)) /\ DecValue(Left(token, k)) <= U32Max
                 /\ IsDecimal(Right(token, k)) /\ DecValue(Right(token, k)) <= U32Max)
                => parsed = Ok(RollCmd(DecValue(Left(token, k)), DecValue(Right(token, k))))
    /\ (Executed /\ cmd.count = 0) => calls = <<>> /\ last = RollResult(<<>>)
    /\ (Executed /\ cmd.sides = 0 /\ last.tag = "Ok") =>
          /\ Len(calls) = cmd.count
          /\ \A i \in 1..cmd.count : calls[i].arg = 0 /\ values(last)[i] = calls[i].ret
    /\ (Executed /\ last.tag = "Panic") => calls # <<>> /\ calls[Len(calls)].panic

C10_Witness ==
    /\ token = <<"2", "d", "0">>
    /\ Executed
    /\ f.kind = "max"
    /\ calls = << [arg |-> 0, ret |-> 0, panic |-> FALSE],
                  [arg |-> 0, ret |-> 0, panic |-> FALSE] >>
    /\ last = RollResult(<<0, 0>>)

=============================================================================
